---- MODULE Spec2Model ----
(***************************************************************************)
(* Model of the retrieval core of Duri (src/search_system_v4.py):          *)
(* FlexibleSearchSystem.search_all_namespaces (score aggregation),         *)
(* calculate_confidence_level (confidence verdict),                        *)
(* select_diverse_results (diversity selection) and the orchestration in   *)
(* search_and_answer.                                                      *)
(*                                                                         *)
(* Numbers.  Raw similarity scores are held in hundredths (0.85 is 85),    *)
(* partition weights in tenths (1.2 is 12), so a weighted score            *)
(* score * weight is held in thousandths (1.02 is 1020).  Products,        *)
(* comparisons and the variance are computed exactly on these integers.    *)
(*                                                                         *)
(* A result dict keeps the fields the core reads: id, score,               *)
(* weighted_score, namespace.  namespace_desc is a function of namespace   *)
(* and metadata is an opaque payload; a match whose metadata key is        *)
(* missing is marked has_metadata = FALSE in the search response.          *)
(***************************************************************************)
EXTENDS Integers, Sequences, FiniteSets, TLC

VARIABLES
    pc,                \* position in search_and_answer / in the function harness
    responses,         \* what index.query returned for each namespace
    all_results,       \* the ranked list (search_all_namespaces' return value)
    confidence,        \* level returned by calculate_confidence_level
    confidence_score,  \* score returned by calculate_confidence_level
    max_results,       \* the max_results argument of select_diverse_results
    pass_selected,     \* `selected` at the end of the diversity pass (line 146)
    selected,          \* return value of select_diverse_results
    answer,            \* kind of answer text returned by search_and_answer
    prev_confidence,   \* level before the top score was last raised
    prev_score,        \* score before the top score was last raised
    configs,           \* self.namespace_configs
    synth_results,     \* the results argument generate_composite_answer got
    formatted,         \* what StudentFriendlyFormatter.search_and_format returns
    calls,             \* the locals of each concurrent search_and_answer call
    streams,           \* sys.stdout, sys.stderr and the file objects closed
    silencers,         \* each SearchModule.search call and its SilentMode
    session_state,     \* st.session_state of one browser session
    script             \* the script run of the session (DuriChatApp.run)

vars == <<pc, responses, all_results, confidence, confidence_score,
          max_results, pass_selected, selected, answer, prev_confidence,
          prev_score, configs, synth_results, formatted, calls,
          streams, silencers, session_state, script>>

\* the process streams and the chat session of the application
appVars == <<streams, silencers, session_state, script>>

\* the variables one sequential search_and_answer call does not touch
otherVars == <<configs, formatted, calls, appVars>>

(***************************************************************************)
(* Bounds of the model                                                     *)
(***************************************************************************)
MaxMatches == 2    \* matches per index.query response (also capped by top_k)
MaxLen == 4        \* length of the ranked lists given to the pure functions
MaxK == 4          \* largest max_results given to select_diverse_results
MaxRun == 10       \* longest run of matches of one namespace in a ranked list
MaxMessages == 4   \* messages after which no further question is asked

(***************************************************************************)
(* Configuration: namespace_configs (insertion order = iteration order)    *)
(***************************************************************************)
NamespaceOrder == <<"faq", "dictionary", "concept", "chunk">>

Namespaces == {NamespaceOrder[i] : i \in 1..Len(NamespaceOrder)}

namespace_configs ==
    [faq        |-> [weight |-> 12, top_k |-> 3],
     dictionary |-> [weight |-> 10, top_k |-> 2],
     concept    |-> [weight |-> 9,  top_k |-> 2],
     chunk      |-> [weight |-> 8,  top_k |-> 2]]

DefaultMaxResults == 3

HighThreshold == 800
MediumThreshold == 600
LowThreshold == 400
StdBound == 100
\* variant: a bonus of 0.3
ClusterBonus_Large == 3 * 100

ClusterBonus == 50
NamespaceCap == 2
ThresholdNum == 8
ThresholdDen == 10

(***************************************************************************)
(* Helpers                                                                 *)
(***************************************************************************)
Min(a, b) == IF a <= b THEN a ELSE b

RECURSIVE SumSeq(_)
SumSeq(s) == IF s = <<>> THEN 0 ELSE Head(s) + SumSeq(Tail(s))

\* variant: membership is never found
InSeq_Never(x, s) == FALSE

InSeq(x, s) == \E i \in 1..Len(s) : s[i] = x

CountNs(s, ns) == Cardinality({i \in 1..Len(s) : s[i].namespace = ns})

IsSortedDesc(s) ==
    \A i \in 1..(Len(s) - 1) : s[i].weighted_score >= s[i + 1].weighted_score

(***************************************************************************)
(* search_all_namespaces                                                   *)
(***************************************************************************)
\* variant: the namespace weight is not applied
MakeResult_Unweighted(match, namespace) ==
    [id             |-> match.id,
     score          |-> match.score,
     weighted_score |-> match.score * 10,
     namespace      |-> namespace]

\* the result dict built for one match of `namespace` (lines 73-80)
MakeResult(match, namespace) ==
    [id             |-> match.id,
     score          |-> match.score,
     weighted_score |-> match.score * namespace_configs[namespace].weight,
     namespace      |-> namespace]

\* the for-loop over response['matches'] (lines 72-81): results appended
\* before a match without its metadata key raises KeyError stay appended
RECURSIVE AppendMatches(_, _)
AppendMatches(matches, namespace) ==
    IF matches = <<>> THEN <<>>
    ELSE IF ~Head(matches).has_metadata THEN <<>>
         ELSE <<MakeResult(Head(matches), namespace)>>
              \o AppendMatches(Tail(matches), namespace)

\* one iteration of the namespace loop with its try/except (lines 63-85)
NamespaceResults(resp, namespace) ==
    IF resp[namespace].raises THEN <<>>
    ELSE AppendMatches(resp[namespace].matches, namespace)

RECURSIVE CollectResults(_, _)
CollectResults(resp, order) ==
    IF order = <<>> THEN <<>>
    ELSE NamespaceResults(resp, Head(order)) \o CollectResults(resp, Tail(order))

\* variant: x goes in front of the elements whose key equals its own
RECURSIVE InsertDesc_Unstable(_, _)
InsertDesc_Unstable(s, x) ==
    IF s = <<>> THEN <<x>>
    ELSE IF Head(s).weighted_score > x.weighted_score
         THEN <<Head(s)>> \o InsertDesc_Unstable(Tail(s), x)
         ELSE <<x>> \o s

\* list.sort(key=weighted_score, reverse=True) keeps equal keys in their
\* original order: x goes behind every element whose key is >= its own
RECURSIVE InsertDesc(_, _)
InsertDesc(s, x) ==
    IF s = <<>> THEN <<x>>
    ELSE IF Head(s).weighted_score >= x.weighted_score
         THEN <<Head(s)>> \o InsertDesc(Tail(s), x)
         ELSE <<x>> \o s

\* variant: the sort is left out
SortByWeightedScore_Unsorted(s) == s

RECURSIVE SortByWeightedScore(_)
SortByWeightedScore(s) ==
    IF s = <<>> THEN <<>>
    ELSE InsertDesc(SortByWeightedScore(SubSeq(s, 1, Len(s) - 1)), s[Len(s)])

search_all_namespaces(resp) ==
    SortByWeightedScore(CollectResults(resp, NamespaceOrder))

(***************************************************************************)
(* calculate_confidence_level                                              *)
(***************************************************************************)
\* variant: the thresholds are exclusive
ConfidenceOf_Exclusive(best_score) ==
    IF best_score > HighThreshold THEN "high"
    ELSE IF best_score > MediumThreshold THEN "medium"
    ELSE IF best_score > LowThreshold THEN "low"
    ELSE "very_low"

\* variant: the labels of the two middle buckets are exchanged
ConfidenceOf_Swapped(best_score) ==
    IF best_score >= HighThreshold THEN "high"
    ELSE IF best_score >= MediumThreshold THEN "low"
    ELSE IF best_score >= LowThreshold THEN "medium"
    ELSE "very_low"

ConfidenceOf(best_score) ==
    IF best_score >= HighThreshold THEN "high"
    ELSE IF best_score >= MediumThreshold THEN "medium"
    ELSE IF best_score >= LowThreshold THEN "low"
    ELSE "very_low"

\* variant: a deviation of exactly 0.1 still earns the bonus
StdBelowBound_Inclusive(xs) ==
    LET n == Len(xs)
        S == SumSeq(xs)
        sq == [i \in 1..n |-> (n * xs[i] - S) * (n * xs[i] - S)]
    IN SumSeq(sq) <= StdBound * StdBound * n * n * n

\* np.std(xs) < 0.1 for the population standard deviation of xs:
\* with n = len(xs) and S = sum(xs), std^2 = sum((n*x - S)^2) / n^3
StdBelowBound(xs) ==
    LET n == Len(xs)
        S == SumSeq(xs)
        sq == [i \in 1..n |-> (n * xs[i] - S) * (n * xs[i] - S)]
    IN SumSeq(sq) < StdBound * StdBound * n * n * n

TopScores(results) ==
    [i \in 1..Min(3, Len(results)) |-> results[i].weighted_score]

\* variant: the level is taken from the score after the bonus
calculate_confidence_level_AfterBonus(results) ==
    IF results = <<>> THEN [level |-> "none", score |-> 0]
    ELSE LET best_score == results[1].weighted_score
             adjusted == IF Len(results) >= 2
                            /\ StdBelowBound(TopScores(results))
                         THEN best_score + ClusterBonus
                         ELSE best_score
         IN [level |-> ConfidenceOf(adjusted), score |-> adjusted]

calculate_confidence_level(results) ==
    IF results = <<>> THEN [level |-> "none", score |-> 0]
    ELSE LET best_score == results[1].weighted_score
         IN [level |-> ConfidenceOf(best_score),
             score |-> IF Len(results) >= 2 /\ StdBelowBound(TopScores(results))
                       THEN best_score + ClusterBonus
                       ELSE best_score]

(***************************************************************************)
(* select_diverse_results                                                  *)
(***************************************************************************)
\* variant: the threshold is best * 0.95
RECURSIVE AboveThreshold_Strict(_, _)
AboveThreshold_Strict(rest, best) ==
    IF rest = <<>> THEN <<>>
    ELSE IF Head(rest).weighted_score * 100 >= best * 95
         THEN <<Head(rest)>> \o AboveThreshold_Strict(Tail(rest), best)
         ELSE AboveThreshold_Strict(Tail(rest), best)

\* candidates: results[1:] with weighted_score >= best * 0.8 (lines 135-136)
RECURSIVE AboveThreshold(_, _)
AboveThreshold(rest, best) ==
    IF rest = <<>> THEN <<>>
    ELSE IF Head(rest).weighted_score * ThresholdDen >= best * ThresholdNum
         THEN <<Head(rest)>> \o AboveThreshold(Tail(rest), best)
         ELSE AboveThreshold(Tail(rest), best)

\* variant: every result after the best one is a candidate
Candidates_All(results) == Tail(results)

Candidates(results) ==
    AboveThreshold(Tail(results), results[1].weighted_score)

\* variant: the loop is left at the first candidate of a closed namespace
RECURSIVE DiversityLoop_BreakAtCap(_, _, _)
DiversityLoop_BreakAtCap(sel, cands, k) ==
    IF cands = <<>> THEN sel
    ELSE IF Len(sel) >= k THEN sel
    ELSE IF CountNs(sel, Head(cands).namespace) < NamespaceCap
         THEN DiversityLoop_BreakAtCap(Append(sel, Head(cands)),
                                       Tail(cands), k)
         ELSE sel

\* variant: a namespace is closed only after its third entry
RECURSIVE DiversityLoop_CapOff(_, _, _)
DiversityLoop_CapOff(sel, cands, k) ==
    IF cands = <<>> THEN sel
    ELSE IF Len(sel) >= k THEN sel
    ELSE IF CountNs(sel, Head(cands).namespace) <= NamespaceCap
         THEN DiversityLoop_CapOff(Append(sel, Head(cands)), Tail(cands), k)
         ELSE DiversityLoop_CapOff(sel, Tail(cands), k)

\* the loop of lines 139-146 over the candidates, from `sel` on
RECURSIVE DiversityLoop(_, _, _)
DiversityLoop(sel, cands, k) ==
    IF cands = <<>> THEN sel
    ELSE IF Len(sel) >= k THEN sel
    ELSE IF CountNs(sel, Head(cands).namespace) < NamespaceCap
         THEN DiversityLoop(Append(sel, Head(cands)), Tail(cands), k)
         ELSE DiversityLoop(sel, Tail(cands), k)

\* variant: the best result is not put into the selection first
DiversityPass_NoBest(results, k) ==
    DiversityLoop(<<>>, Candidates(results), k)

\* `selected` when the loop is left (lines 126-146); results non-empty
DiversityPass(results, k) ==
    DiversityLoop(<<results[1]>>, Candidates(results), k)

\* variant: the results not yet selected are collected from the end
RECURSIVE Remaining_FromEnd(_, _)
Remaining_FromEnd(results, sel) ==
    IF results = <<>> THEN <<>>
    ELSE Remaining_FromEnd(Tail(results), sel)
         \o (IF InSeq(Head(results), sel) THEN <<>> ELSE <<Head(results)>>)

\* remaining = [r for r in results if r not in selected] (line 150);
\* `not in` compares the dicts by value
RECURSIVE Remaining(_, _)
Remaining(results, sel) ==
    IF results = <<>> THEN <<>>
    ELSE IF InSeq(Head(results), sel) THEN Remaining(Tail(results), sel)
         ELSE <<Head(results)>> \o Remaining(Tail(results), sel)

\* variant: the fill-up takes only results above the threshold
Backfill_AboveThreshold(sel, results, k) ==
    IF Len(sel) < k
    THEN LET remaining == Remaining(Candidates(results), sel)
         IN sel \o SubSeq(remaining, 1, Min(k - Len(sel), Len(remaining)))
    ELSE sel

\* lines 149-151: fill up with the results not yet selected, in list order
Backfill(sel, results, k) ==
    IF Len(sel) < k
    THEN LET remaining == Remaining(results, sel)
         IN sel \o SubSeq(remaining, 1, Min(k - Len(sel), Len(remaining)))
    ELSE sel

\* variant: the selection is put into score order before it is returned
select_diverse_results_Resorted(results, k) ==
    IF results = <<>> THEN <<>>
    ELSE LET sel == Backfill(DiversityPass(results, k), results, k)
         IN SortByWeightedScore(SubSeq(sel, 1, Min(k, Len(sel))))

\* variant: the final slice [:max_results] is left out
select_diverse_results_Unsliced(results, k) ==
    IF results = <<>> THEN <<>>
    ELSE Backfill(DiversityPass(results, k), results, k)

select_diverse_results(results, k) ==
    IF results = <<>> THEN <<>>
    ELSE LET sel == Backfill(DiversityPass(results, k), results, k)
         IN SubSeq(sel, 1, Min(k, Len(sel)))

(***************************************************************************)
(* Inputs                                                                  *)
(***************************************************************************)
RawScores == {50, 60}

\* responses of n matches, ids unique within the partition
GoodMatches(n) ==
    {[i \in 1..n |-> [id |-> i, score |-> f[i], has_metadata |-> TRUE]] :
        f \in [1..n -> RawScores]}

\* the same, the last match lacking its metadata key
BadLastMatches(n) ==
    IF n = 0 THEN {}
    ELSE {[m EXCEPT ![n].has_metadata = FALSE] : m \in GoodMatches(n)}

\* what self.index.query can do for one namespace: raise, or return at most
\* top_k matches
ResponsesOf(namespace) ==
    {[raises |-> TRUE, matches |-> <<>>]}
    \cup {[raises |-> FALSE, matches |-> m] :
            m \in UNION {GoodMatches(n) \cup BadLastMatches(n) :
                n \in 0..Min(namespace_configs[namespace].top_k, MaxMatches)}}

\* generate_composite_answer has not been called
NotCalled == "not_called"

\* search_and_format has not returned
NotReturned == "not_returned"

\* the concurrent callers of search_and_answer
Threads == {1, 2}

\* no concurrent call is running
NoCalls == [t \in Threads |-> [pc |-> "idle"]]

NoResponses == [ns \in Namespaces |-> [raises |-> FALSE, matches |-> <<>>]]

\* the streams of the process before any SilentMode is entered: file objects
\* are told apart by who opened them (0: the interpreter) and for which name
OriginalStdout == [owner |-> 0, name |-> "stdout"]

OriginalStderr == [owner |-> 0, name |-> "stderr"]

OriginalStreams ==
    [stdout |-> OriginalStdout, stderr |-> OriginalStderr, closed |-> {}]

\* an attribute that has not been assigned yet
NoStream == [owner |-> 0, name |-> "unset"]

\* no SearchModule.search call is running
NoSilencers ==
    [t \in Threads |-> [pc |-> "idle", original_stdout |-> NoStream,
                        original_stderr |-> NoStream]]

\* st.session_state after initialize_session_state (lines 801-824)
NewSession ==
    [messages |-> <<>>, selected_question |-> "None", is_from_faq |-> FALSE]

\* no script run is in progress: the first run of the session has rendered
\* the empty chat; prompt, clear: what triggered the current run;
\* faq_shown: the recommended-question buttons are on the page;
\* completed: the last run ended by reaching its end or by st.rerun()
NoScript ==
    [pc |-> "idle", prompt |-> FALSE, clear |-> FALSE, faq_shown |-> FALSE,
     completed |-> TRUE]

(***************************************************************************)
(* search_and_answer                                                       *)
(***************************************************************************)
Init ==
    /\ pc = "start"
    /\ responses = NoResponses
    /\ all_results = <<>>
    /\ confidence = "unset"
    /\ confidence_score = 0
    /\ max_results = DefaultMaxResults
    /\ pass_selected = <<>>
    /\ selected = <<>>
    /\ answer = "unset"
    /\ prev_confidence = "unset"
    /\ prev_score = 0
    /\ configs = namespace_configs
    /\ synth_results = NotCalled
    /\ formatted = NotReturned
    /\ calls = NoCalls
    /\ streams = OriginalStreams
    /\ silencers = NoSilencers
    /\ session_state = NewSession
    /\ script = NoScript

\* line 301: create_query_embedding returns the embedding
CreateQueryEmbedding ==
    /\ pc = "start"
    /\ pc' = "embedded"
    /\ UNCHANGED <<responses, all_results, confidence, confidence_score,
                   max_results, pass_selected, selected, answer,
                   prev_confidence, prev_score>>
    /\ UNCHANGED <<synth_results, otherVars>>

\* lines 55-57: the embedding call fails and the exception is re-raised;
\* search_and_answer has no handler, so it leaves by the exception
EmbeddingRaises ==
    /\ pc = "start"
    /\ pc' = "raised"
    /\ UNCHANGED <<responses, all_results, confidence, confidence_score,
                   max_results, pass_selected, selected, answer,
                   prev_confidence, prev_score>>
    /\ UNCHANGED <<synth_results, otherVars>>

\* line 304: search_all_namespaces queries every namespace and sorts
SearchAllNamespaces ==
    /\ pc = "embedded"
    /\ \E rf \in ResponsesOf("faq"), rd \in ResponsesOf("dictionary"),
          rc \in ResponsesOf("concept"), rk \in ResponsesOf("chunk") :
          LET resp == [faq |-> rf, dictionary |-> rd,
                       concept |-> rc, chunk |-> rk]
          IN /\ responses' = resp
             /\ all_results' = search_all_namespaces(resp)
    /\ pc' = "searched"
    /\ UNCHANGED <<confidence, confidence_score, max_results, pass_selected,
                   selected, answer, prev_confidence, prev_score>>
    /\ UNCHANGED <<synth_results, otherVars>>

\* variant: the empty list is not caught and runs into the synthesizer,
\* whose handler answers with its apology
ReturnNotFound_Apology ==
    /\ pc = "searched"
    /\ all_results = <<>>
    /\ answer' = "generation_failed"
    /\ confidence' = "none"
    /\ confidence_score' = 0
    /\ selected' = <<>>
    /\ pc' = "returned"
    /\ UNCHANGED <<responses, all_results, max_results, pass_selected,
                   prev_confidence, prev_score>>
    /\ UNCHANGED <<synth_results, otherVars>>

\* lines 306-314: nothing found
ReturnNotFound ==
    /\ pc = "searched"
    /\ all_results = <<>>
    /\ answer' = "not_found"
    /\ confidence' = "none"
    /\ confidence_score' = 0
    /\ selected' = <<>>
    /\ pc' = "returned"
    /\ UNCHANGED <<responses, all_results, max_results, pass_selected,
                   prev_confidence, prev_score>>
    /\ UNCHANGED <<synth_results, otherVars>>

\* variant: the verdict is computed once the third namespace has answered
CalculateConfidence_Early ==
    /\ pc = "concept"
    /\ all_results # <<>>
    /\ LET verdict == calculate_confidence_level(all_results)
       IN /\ confidence' = verdict.level
          /\ confidence_score' = verdict.score
    /\ pc' = "classified"
    /\ UNCHANGED <<responses, all_results, max_results, pass_selected,
                   selected, answer, prev_confidence, prev_score>>
    /\ UNCHANGED <<synth_results, otherVars>>

\* line 317
CalculateConfidence ==
    /\ pc = "searched"
    /\ all_results # <<>>
    /\ LET verdict == calculate_confidence_level(all_results)
       IN /\ confidence' = verdict.level
          /\ confidence_score' = verdict.score
    /\ pc' = "classified"
    /\ UNCHANGED <<responses, all_results, max_results, pass_selected,
                   selected, answer, prev_confidence, prev_score>>
    /\ UNCHANGED <<synth_results, otherVars>>

\* line 320
SelectDiverse ==
    /\ pc = "classified"
    /\ pass_selected' = DiversityPass(all_results, max_results)
    /\ selected' = select_diverse_results(all_results, max_results)
    /\ pc' = "selected"
    /\ UNCHANGED <<responses, all_results, confidence, confidence_score,
                   max_results, answer, prev_confidence, prev_score>>
    /\ UNCHANGED <<synth_results, otherVars>>

\* variant: the synthesizer is given the whole ranked list
GenerateAnswer_AllResults ==
    /\ pc = "selected"
    /\ answer' \in {"synthesized", "generation_failed"}
    /\ pc' = "returned"
    /\ UNCHANGED <<responses, all_results, confidence, confidence_score,
                   max_results, pass_selected, selected, prev_confidence, prev_score>>
    /\ synth_results' = all_results
    /\ UNCHANGED otherVars

\* lines 323-336: generate_composite_answer returns the synthesized text, or
\* its fixed apology when the completion call raises (lines 260-262)
GenerateAnswer ==
    /\ pc = "selected"
    /\ answer' \in {"synthesized", "generation_failed"}
    /\ pc' = "returned"
    /\ UNCHANGED <<responses, all_results, confidence, confidence_score,
                   max_results, pass_selected, selected, prev_confidence, prev_score>>
    /\ synth_results' = selected
    /\ UNCHANGED otherVars

Next ==
    \/ CreateQueryEmbedding
    \/ EmbeddingRaises
    \/ SearchAllNamespaces
    \/ ReturnNotFound
    \/ CalculateConfidence
    \/ SelectDiverse
    \/ GenerateAnswer

Spec == Init /\ [][Next]_vars

(***************************************************************************)
(* The classifier and the selector applied to bounded ranked lists         *)
(***************************************************************************)
FnPool ==
    {[namespace |-> "faq",        score |-> 85],
     [namespace |-> "dictionary", score |-> 100],
     [namespace |-> "concept",    score |-> 90],
     [namespace |-> "dictionary", score |-> 80],
     [namespace |-> "chunk",      score |-> 100],
     [namespace |-> "dictionary", score |-> 79],
     [namespace |-> "faq",        score |-> 50],
     [namespace |-> "dictionary", score |-> 40],
     [namespace |-> "chunk",      score |-> 49]}

NsIndex(namespace) ==
    CHOOSE i \in 1..Len(NamespaceOrder) : NamespaceOrder[i] = namespace

\* the result list of a sequence of pool entries; a result's id is its rank
\* among the results of its own namespace
ResultsOf(ps) ==
    [i \in 1..Len(ps) |->
        MakeResult([id |-> Cardinality({j \in 1..i :
                                ps[j].namespace = ps[i].namespace}),
                    score |-> ps[i].score],
                   ps[i].namespace)]

\* ordered as search_all_namespaces orders: descending, equal scores in
\* namespace order
IsRanked(s) ==
    \A i \in 1..(Len(s) - 1) :
        \/ s[i].weighted_score > s[i + 1].weighted_score
        \/ /\ s[i].weighted_score = s[i + 1].weighted_score
           /\ NsIndex(s[i].namespace) <= NsIndex(s[i + 1].namespace)

RankedLists ==
    {s \in {ResultsOf(ps) : ps \in UNION {[1..n -> FnPool] : n \in 0..MaxLen}} :
        IsRanked(s)}

InitFn ==
    /\ pc = "fn_input"
    /\ responses = NoResponses
    /\ all_results \in RankedLists
    /\ confidence = "unset"
    /\ confidence_score = 0
    /\ max_results \in 0..MaxK
    /\ pass_selected = <<>>
    /\ selected = <<>>
    /\ answer = "unset"
    /\ prev_confidence = "unset"
    /\ prev_score = 0
    /\ configs = namespace_configs
    /\ synth_results = NotCalled
    /\ formatted = NotReturned
    /\ calls = NoCalls
    /\ streams = OriginalStreams
    /\ silencers = NoSilencers
    /\ session_state = NewSession
    /\ script = NoScript

FnClassify ==
    /\ pc = "fn_input"
    /\ LET verdict == calculate_confidence_level(all_results)
       IN /\ confidence' = verdict.level
          /\ confidence_score' = verdict.score
    /\ pc' = "fn_classified"
    /\ UNCHANGED <<responses, all_results, max_results, pass_selected,
                   selected, answer, prev_confidence, prev_score>>
    /\ UNCHANGED <<synth_results, otherVars>>

\* the same list with a higher score of its top result, classified again
FnRaiseTop ==
    /\ pc = "fn_classified"
    /\ all_results # <<>>
    /\ \E p \in FnPool :
          /\ p.score > all_results[1].score
          /\ all_results' =
                [all_results EXCEPT ![1] =
                    MakeResult([id |-> @.id, score |-> p.score], @.namespace)]
    /\ prev_confidence' = confidence
    /\ prev_score' = confidence_score
    /\ LET verdict == calculate_confidence_level(all_results')
       IN /\ confidence' = verdict.level
          /\ confidence_score' = verdict.score
    /\ UNCHANGED <<pc, responses, max_results, pass_selected, selected, answer>>
    /\ UNCHANGED <<synth_results, otherVars>>

FnSelect ==
    /\ pc = "fn_classified"
    /\ pass_selected' = IF all_results = <<>> THEN <<>>
                        ELSE DiversityPass(all_results, max_results)
    /\ selected' = select_diverse_results(all_results, max_results)
    /\ pc' = "fn_selected"
    /\ UNCHANGED <<responses, all_results, confidence, confidence_score,
                   max_results, answer, prev_confidence, prev_score>>
    /\ UNCHANGED <<synth_results, otherVars>>

NextFn ==
    \/ FnClassify
    \/ FnRaiseTop
    \/ FnSelect

SpecFn == InitFn /\ [][NextFn]_vars

(***************************************************************************)
(* Properties                                                              *)
(***************************************************************************)
FnSelected == pc = "fn_selected"

FnClassified == pc \in {"fn_classified", "fn_selected"}

Searched == pc \in {"searched", "classified", "selected", "returned"}

\* position of a result's match in the response of its namespace
PosInResponse(r) ==
    CHOOSE p \in 1..Len(responses[r.namespace].matches) :
        responses[r.namespace].matches[p].id = r.id

SomeNamespaceFailed ==
    \E ns \in Namespaces :
        \/ responses[ns].raises
        \/ \E p \in 1..Len(responses[ns].matches) :
              ~responses[ns].matches[p].has_metadata

\* C1: for a non-empty ranked list and max_results >= 1, results[0] is a
\* member of the list select_diverse_results returns.
TheoremC1 ==
    (FnSelected /\ all_results # <<>> /\ max_results >= 1)
        => InSeq(all_results[1], selected)

\* the best result is kept although every following result is a candidate
\* and max_results is 1
WitnessC1 ==
    /\ FnSelected
    /\ max_results = 1
    /\ Len(all_results) >= 3
    /\ Len(Candidates(all_results)) = Len(all_results) - 1
    /\ selected = <<all_results[1]>>

\* C2: in the list search_all_namespaces returns, every adjacent pair has
\* weighted_score[i] >= weighted_score[i+1], whatever the namespaces
\* returned and whichever of them failed.
TheoremC2 == Searched => IsSortedDesc(all_results)

\* a namespace failed and the sort moved a result of a later namespace in
\* front of a result of an earlier one
WitnessC2 ==
    /\ pc = "searched"
    /\ SomeNamespaceFailed
    /\ Len(all_results) >= 3
    /\ \E i \in 1..Len(all_results), j \in 1..Len(all_results) :
          /\ i < j
          /\ all_results[i].weighted_score > all_results[j].weighted_score
          /\ NsIndex(all_results[i].namespace) > NsIndex(all_results[j].namespace)

\* C3: every result of the ranked list has weighted_score = its raw score
\* times the configured weight of its own namespace, and its id, raw score
\* and namespace are those of a match the search returned for that namespace.
TheoremC3 ==
    Searched =>
        \A i \in 1..Len(all_results) :
            LET r == all_results[i]
                resp == responses[r.namespace]
            IN /\ r.weighted_score =
                      r.score * namespace_configs[r.namespace].weight
               /\ ~resp.raises
               /\ \E p \in 1..Len(resp.matches) :
                      /\ resp.matches[p].id = r.id
                      /\ resp.matches[p].score = r.score

\* results of all four namespaces, hence of four different weights
WitnessC3 ==
    /\ pc = "searched"
    /\ \A ns \in Namespaces : CountNs(all_results, ns) >= 1
    /\ \E i \in 1..Len(all_results) :
          all_results[i].weighted_score # all_results[i].score * 10

\* C4: results of equal weighted_score stand in the order in which their
\* namespaces are enumerated in namespace_configs and, within one namespace,
\* in the order the search returned them.
TheoremC4 ==
    Searched =>
        \A i \in 1..Len(all_results), j \in 1..Len(all_results) :
            (i < j /\ all_results[i].weighted_score
                        = all_results[j].weighted_score)
            => \/ NsIndex(all_results[i].namespace)
                    < NsIndex(all_results[j].namespace)
               \/ /\ all_results[i].namespace = all_results[j].namespace
                  /\ PosInResponse(all_results[i])
                        < PosInResponse(all_results[j])

\* a tie between two namespaces and a tie inside one namespace
WitnessC4 ==
    /\ pc = "searched"
    /\ \E i \in 1..Len(all_results), j \in 1..Len(all_results) :
          /\ i < j
          /\ all_results[i].weighted_score = all_results[j].weighted_score
          /\ all_results[i].namespace # all_results[j].namespace
    /\ \E i \in 1..Len(all_results), j \in 1..Len(all_results) :
          /\ i < j
          /\ all_results[i].weighted_score = all_results[j].weighted_score
          /\ all_results[i].namespace = all_results[j].namespace

\* C5: an empty list gives level none and score 0.0; otherwise the level is
\* high for best >= 0.8, medium for 0.6 <= best < 0.8, low for
\* 0.4 <= best < 0.6 and very_low for best < 0.4, best being the weighted
\* score of results[0]; a boundary value falls in the higher bucket.
TheoremC5 ==
    FnClassified =>
        IF all_results = <<>>
        THEN confidence = "none" /\ confidence_score = 0
        ELSE LET best == all_results[1].weighted_score
             IN /\ (confidence = "high") <=> (best >= 800)
                /\ (confidence = "medium") <=> (600 <= best /\ best < 800)
                /\ (confidence = "low") <=> (400 <= best /\ best < 600)
                /\ (confidence = "very_low") <=> (best < 400)

\* a best score exactly on the 0.8 boundary is classified high
WitnessC5 ==
    /\ pc = "fn_classified"
    /\ all_results # <<>>
    /\ all_results[1].weighted_score = 800
    /\ confidence = "high"

\* sum over the pairs i < j of (x_i - x_j)^2: n^2 times the population
\* variance of x_1..x_n
RECURSIVE PairSquares(_)
PairSquares(xs) ==
    IF Len(xs) <= 1 THEN 0
    ELSE SumSeq([j \in 1..(Len(xs) - 1) |->
                    (xs[1] - xs[j + 1]) * (xs[1] - xs[j + 1])])
         + PairSquares(Tail(xs))

\* the population standard deviation of the weighted scores of the first
\* min(3, n) results is strictly below 0.1
TightTop(results) ==
    LET n == Min(3, Len(results))
        xs == [i \in 1..n |-> results[i].weighted_score]
    IN PairSquares(xs) < 100 * 100 * n * n

\* C6: for a non-empty list the score is best + 0.05 exactly when there are
\* at least 2 results and the population standard deviation of the weighted
\* scores of the first min(3, n) results is strictly below 0.1, and best
\* otherwise; top scores 0.81, 0.80, 0.79 give 0.86.
TheoremC6 ==
    (FnClassified /\ all_results # <<>>) =>
        LET best == all_results[1].weighted_score
            bonus == Len(all_results) >= 2 /\ TightTop(all_results)
        IN /\ bonus => confidence_score = best + 50
           /\ ~bonus => confidence_score = best
           /\ (/\ Len(all_results) >= 3
               /\ all_results[1].weighted_score = 810
               /\ all_results[2].weighted_score = 800
               /\ all_results[3].weighted_score = 790)
              => confidence_score = 860

\* the list with top scores 0.81, 0.80, 0.79 has been classified
WitnessC6 ==
    /\ pc = "fn_classified"
    /\ Len(all_results) >= 3
    /\ all_results[1].weighted_score = 810
    /\ all_results[2].weighted_score = 800
    /\ all_results[3].weighted_score = 790
    /\ confidence_score = 860

LevelRank(level) ==
    CASE level = "none" -> 0
      [] level = "very_low" -> 1
      [] level = "low" -> 2
      [] level = "medium" -> 3
      [] level = "high" -> 4

\* C7: raising the weighted score of the top result, every other result
\* unchanged, never lowers the level (none < very_low < low < medium < high).
TheoremC7 ==
    (pc = "fn_classified" /\ prev_confidence # "unset")
        => LevelRank(confidence) >= LevelRank(prev_confidence)

\* a raise of the top score lifted the level from low to high
WitnessC7 ==
    /\ pc = "fn_classified"
    /\ prev_confidence = "low"
    /\ confidence = "high"
    /\ Len(all_results) >= 2

\* C8: select_diverse_results never returns more than max_results items,
\* for every list and every max_results >= 0, and returns the empty list
\* for an empty list.
TheoremC8 ==
    FnSelected =>
        /\ Len(selected) <= max_results
        /\ all_results = <<>> => selected = <<>>

\* max_results = 0 on a non-empty list: the best result is cut off again
WitnessC8 ==
    /\ FnSelected
    /\ max_results = 0
    /\ all_results # <<>>
    /\ pass_selected = <<all_results[1]>>
    /\ selected = <<>>

\* index in all_results of a result
IndexOf(r) == CHOOSE i \in 1..Len(all_results) : all_results[i] = r

\* C9: for n results and max_results = k >= 1 exactly min(k, n) items are
\* returned: the diversity pass comes first and, when it is short, the
\* results not yet selected follow in list order, whatever their score and
\* namespace, until k is reached or the list is exhausted.
TheoremC9 ==
    (FnSelected /\ max_results >= 1) =>
        /\ Len(selected) = Min(max_results, Len(all_results))
        /\ Len(pass_selected) <= Len(selected)
        /\ SubSeq(selected, 1, Len(pass_selected)) = pass_selected
        /\ \A i \in (Len(pass_selected) + 1)..Len(selected) :
              /\ InSeq(selected[i], all_results)
              /\ \A j \in 1..(IndexOf(selected[i]) - 1) :
                    InSeq(all_results[j], SubSeq(selected, 1, i - 1))

\* backfill added a result below the threshold and one of a namespace that
\* already had its two entries
WitnessC9 ==
    /\ FnSelected
    /\ Len(pass_selected) < Len(selected)
    /\ \E i \in (Len(pass_selected) + 1)..Len(selected) :
          selected[i].weighted_score * 10 < all_results[1].weighted_score * 8
    /\ \E i \in (Len(pass_selected) + 1)..Len(selected) :
          CountNs(pass_selected, selected[i].namespace) = 2

\* C10: at the end of the diversity pass (results[0] and the candidates the
\* loop added, before backfill) no namespace has more than 2 entries, and
\* results[0] is one of the entries counted for its namespace.
TheoremC10 ==
    (FnSelected /\ all_results # <<>>) =>
        /\ pass_selected[1] = all_results[1]
        /\ \A ns \in Namespaces : CountNs(pass_selected, ns) <= 2

\* a third candidate of the best result's namespace was passed over and a
\* later candidate of another namespace was taken
WitnessC10 ==
    /\ FnSelected
    /\ Len(all_results) >= 4
    /\ Len(pass_selected) = 3
    /\ all_results[3].namespace = all_results[1].namespace
    /\ all_results[3].weighted_score * 10 >= all_results[1].weighted_score * 8
    /\ CountNs(pass_selected, all_results[1].namespace) = 2
    /\ pass_selected[3].namespace # all_results[1].namespace

\* the items of s are results of all_results, in the order of all_results
InRankedOrder(s) ==
    /\ \A i \in 1..Len(s) : InSeq(s[i], all_results)
    /\ \A i \in 1..Len(s), j \in 1..Len(s) :
          i < j => IndexOf(s[i]) < IndexOf(s[j])

\* C11 as claimed: for every max_results the list select_diverse_results
\* returns is an ordered subsequence of the ranked list.
ClaimC11 == FnSelected => InRankedOrder(selected)

\* C11 as amended: the returned list is an ordered subsequence of the ranked
\* list for max_results <= 3; for every max_results the diversity pass and
\* the backfilled items are each in ranked order.
TheoremC11 ==
    FnSelected =>
        /\ max_results <= 3 => InRankedOrder(selected)
        /\ InRankedOrder(SubSeq(selected, 1,
                                Min(Len(pass_selected), Len(selected))))
        /\ InRankedOrder(SubSeq(selected, Len(pass_selected) + 1,
                                Len(selected)))

\* max_results = 3: the third result was passed over for the fourth, and
\* the selection is still in ranked order
WitnessC11 ==
    /\ FnSelected
    /\ max_results = 3
    /\ Len(all_results) >= 4
    /\ selected = <<all_results[1], all_results[2], all_results[4]>>

(***************************************************************************)
(* search_all_namespaces under a namespace_configs entry without 'weight'  *)
(***************************************************************************)
HasWeight(cfg, namespace) == "weight" \in DOMAIN cfg[namespace]

\* namespace_configs, the entry of `namespace` lacking its 'weight' key
WithoutWeight(namespace) ==
    [namespace_configs EXCEPT ![namespace] = [top_k |-> @.top_k]]

ConfigVariants ==
    {namespace_configs} \cup {WithoutWeight(ns) : ns \in Namespaces}

\* one iteration of the namespace loop (lines 63-85) under cfg: without a
\* weight, config['weight'] raises KeyError at line 76 for the first match,
\* before anything is appended, and `except Exception: continue` swallows it
NamespaceResultsWith(cfg, resp, namespace) ==
    IF HasWeight(cfg, namespace) THEN NamespaceResults(resp, namespace)
    ELSE <<>>

RECURSIVE CollectResultsWith(_, _, _)
CollectResultsWith(cfg, resp, order) ==
    IF order = <<>> THEN <<>>
    ELSE NamespaceResultsWith(cfg, resp, Head(order))
         \o CollectResultsWith(cfg, resp, Tail(order))

search_all_namespaces_with(cfg, resp) ==
    SortByWeightedScore(CollectResultsWith(cfg, resp, NamespaceOrder))

InitCfg ==
    /\ pc = "cfg_start"
    /\ responses = NoResponses
    /\ all_results = <<>>
    /\ confidence = "unset"
    /\ confidence_score = 0
    /\ max_results = DefaultMaxResults
    /\ pass_selected = <<>>
    /\ selected = <<>>
    /\ answer = "unset"
    /\ prev_confidence = "unset"
    /\ prev_score = 0
    /\ configs \in ConfigVariants
    /\ synth_results = NotCalled
    /\ formatted = NotReturned
    /\ calls = NoCalls
    /\ streams = OriginalStreams
    /\ silencers = NoSilencers
    /\ session_state = NewSession
    /\ script = NoScript

\* search_all_namespaces has no path that raises: every exception of an
\* iteration is caught at lines 83-85, so the call always returns its list
SearchWithConfig ==
    /\ pc = "cfg_start"
    /\ \E rf \in ResponsesOf("faq"), rd \in ResponsesOf("dictionary"),
          rc \in ResponsesOf("concept"), rk \in ResponsesOf("chunk") :
          LET resp == [faq |-> rf, dictionary |-> rd,
                       concept |-> rc, chunk |-> rk]
          IN /\ responses' = resp
             /\ all_results' = search_all_namespaces_with(configs, resp)
    /\ pc' = "cfg_returned"
    /\ UNCHANGED <<confidence, confidence_score, max_results, pass_selected,
                   selected, answer, prev_confidence, prev_score,
                   synth_results, otherVars>>

NextCfg == SearchWithConfig

SpecCfg == InitCfg /\ [][NextCfg]_vars

\* the search returned at least one match for the namespace
PresentInSearch(namespace) ==
    /\ ~responses[namespace].raises
    /\ responses[namespace].matches # <<>>

AllQueriesRaised == \A ns \in Namespaces : responses[ns].raises

\* C13 as claimed: when the embedding provider fails, or the similarity
\* search fails for every namespace, search_and_answer returns the fixed
\* not-found result with confidence none and raises nothing to its caller.
ClaimC13 ==
    /\ pc # "raised"
    /\ (pc = "returned" /\ AllQueriesRaised)
          => (answer = "not_found" /\ confidence = "none")

\* the handling of the namespace failed: the query raised, or a match
\* raised inside the loop
NamespaceFailed(namespace) ==
    \/ responses[namespace].raises
    \/ \E p \in 1..Len(responses[namespace].matches) :
          ~responses[namespace].matches[p].has_metadata

\* C14 as claimed: a namespace whose handling fails contributes no result
\* to the ranked list, every match of the other namespaces is in the list,
\* and the not-found answer is given only if every namespace failed or
\* returned nothing.
ClaimC14 ==
    Searched =>
        /\ \A ns \in Namespaces :
              IF NamespaceFailed(ns)
              THEN CountNs(all_results, ns) = 0
              ELSE CountNs(all_results, ns) = Len(responses[ns].matches)
        /\ answer = "not_found" =>
              \A ns \in Namespaces :
                  NamespaceFailed(ns) \/ responses[ns].matches = <<>>

\* every namespace answered, with no match
AllReturnedNothing ==
    \A ns \in Namespaces :
        ~responses[ns].raises /\ responses[ns].matches = <<>>

\* C15: when every namespace returns zero matches nothing is raised: the
\* ranked list is empty, and the call returns confidence none with score 0,
\* an empty selected set and the fixed not-found answer.
TheoremC15 ==
    (Searched /\ AllReturnedNothing) =>
        /\ all_results = <<>>
        /\ pc \in {"searched", "returned"}
        /\ pc = "returned" =>
              /\ confidence = "none"
              /\ confidence_score = 0
              /\ selected = <<>>
              /\ answer = "not_found"

\* the call has returned after four empty responses
WitnessC15 ==
    /\ pc = "returned"
    /\ AllReturnedNothing
    /\ answer = "not_found"

\* C19: the synthesizer is called only with select_diverse_results(
\* all_results, 3): never with an empty list, never with more than 3
\* results, never with a result outside that selection; the 'results'
\* field returned to the caller is the same list.
TheoremC19 ==
    /\ synth_results # NotCalled =>
          /\ synth_results = select_diverse_results(all_results, 3)
          /\ Len(synth_results) >= 1
          /\ Len(synth_results) <= 3
          /\ \A i \in 1..Len(synth_results) :
                InSeq(synth_results[i], all_results)
          /\ pc = "returned"
          /\ selected = synth_results
    /\ (pc = "returned" /\ synth_results = NotCalled) =>
          (answer = "not_found" /\ selected = <<>>)

\* more than 3 results were ranked and the synthesizer got 3 of them
WitnessC19 ==
    /\ pc = "returned"
    /\ Len(all_results) > 3
    /\ synth_results # NotCalled
    /\ Len(synth_results) = 3
    /\ answer = "synthesized"

(***************************************************************************)
(* StudentFriendlyFormatter.search_and_format around search_and_answer     *)
(***************************************************************************)
Levels == {"none", "very_low", "low", "medium", "high"}

\* main_concept['explanation'] built by extract_main_concept from the
\* answer text; `empty` says the synthesized text is the empty string
ExplanationOf(ans, empty) ==
    IF ans = "synthesized" /\ empty THEN "no_result"
    ELSE ans

\* lines 985-1037: the response built from the search result; the answer
\* can be the empty string only where line 258 appends no note to it
FormatResponse ==
    /\ pc = "returned"
    /\ \E empty \in IF confidence \in {"medium", "high"}
                    THEN BOOLEAN ELSE {FALSE} :
          formatted' = [kind        |-> "formatted",
                        explanation |-> ExplanationOf(answer, empty),
                        confidence  |-> confidence,
                        error       |-> "absent"]
    /\ pc' = "formatted"
    /\ UNCHANGED <<responses, all_results, confidence, confidence_score,
                   max_results, pass_selected, selected, answer,
                   prev_confidence, prev_score, configs, synth_results,
                   calls, appVars>>

\* lines 1039-1057: search_and_answer raised, or a later step of the try
\* block did; the response has the fixed apology, str(e) under 'error' and
\* no 'confidence' key
ErrorResponse ==
    /\ pc \in {"raised", "returned"}
    /\ formatted' = [kind        |-> "error",
                     explanation |-> "error_apology",
                     confidence  |-> "absent",
                     error       |-> "exception_text"]
    /\ pc' = "formatted"
    /\ UNCHANGED <<responses, all_results, confidence, confidence_score,
                   max_results, pass_selected, selected, answer,
                   prev_confidence, prev_score, configs, synth_results,
                   calls, appVars>>

NextFmt ==
    \/ CreateQueryEmbedding
    \/ EmbeddingRaises
    \/ SearchAllNamespaces
    \/ ReturnNotFound
    \/ CalculateConfidence
    \/ SelectDiverse
    \/ GenerateAnswer
    \/ FormatResponse
    \/ ErrorResponse

SpecFmt == Init /\ [][NextFmt]_vars

\* C16 as claimed: whatever fails among the embedding provider, the
\* similarity search and the synthesizer, search_and_format returns a
\* response that carries either a synthesized answer with a confidence
\* label or a could-not-find message.
ClaimC16 ==
    pc = "formatted" =>
        \/ /\ formatted.explanation = "synthesized"
           /\ formatted.confidence \in Levels
        \/ formatted.explanation \in {"not_found", "no_result"}

(***************************************************************************)
(* Two concurrent calls of search_and_answer on one FlexibleSearchSystem   *)
(***************************************************************************)
\* what the similarity search answers to the question of a call
ConcResponses ==
    {NoResponses,
     [NoResponses EXCEPT
        !.faq = [raises |-> FALSE,
                 matches |-> <<[id |-> 1, score |-> 60, has_metadata |-> TRUE]>>],
        !.dictionary = [raises |-> FALSE,
                 matches |-> <<[id |-> 1, score |-> 60, has_metadata |-> TRUE],
                               [id |-> 2, score |-> 50, has_metadata |-> TRUE]>>]],
     [NoResponses EXCEPT
        !.dictionary = [raises |-> TRUE, matches |-> <<>>],
        !.concept = [raises |-> FALSE,
                 matches |-> <<[id |-> 1, score |-> 50, has_metadata |-> TRUE]>>],
        !.chunk = [raises |-> FALSE,
                 matches |-> <<[id |-> 1, score |-> 60, has_metadata |-> TRUE],
                               [id |-> 2, score |-> 50, has_metadata |-> FALSE]>>]]}

\* the locals of a call that has just been entered
NewCall ==
    [pc               |-> "start",
     responses        |-> NoResponses,
     all_results      |-> <<>>,
     confidence       |-> "unset",
     confidence_score |-> 0,
     selected         |-> <<>>,
     answer           |-> "unset"]

InitConc ==
    /\ pc = "concurrent"
    /\ responses = NoResponses
    /\ all_results = <<>>
    /\ confidence = "unset"
    /\ confidence_score = 0
    /\ max_results = DefaultMaxResults
    /\ pass_selected = <<>>
    /\ selected = <<>>
    /\ answer = "unset"
    /\ prev_confidence = "unset"
    /\ prev_score = 0
    /\ configs = namespace_configs
    /\ synth_results = NotCalled
    /\ formatted = NotReturned
    /\ calls = [t \in Threads |-> NewCall]
    /\ streams = OriginalStreams
    /\ silencers = NoSilencers
    /\ session_state = NewSession
    /\ script = NoScript

\* the variables a concurrent call does not touch
notCalls == <<pc, responses, all_results, confidence, confidence_score,
              max_results, pass_selected, selected, answer, prev_confidence,
              prev_score, configs, synth_results, formatted, appVars>>

\* line 301
TEmbed(t) ==
    /\ calls[t].pc = "start"
    /\ \E next \in {"embedded", "raised"} :
          calls' = [calls EXCEPT ![t].pc = next]
    /\ UNCHANGED notCalls

\* line 304: all_results is a local of the call, the configuration is read
TSearch(t) ==
    /\ calls[t].pc = "embedded"
    /\ \E resp \in ConcResponses :
          calls' = [calls EXCEPT
                       ![t].responses = resp,
                       ![t].all_results = search_all_namespaces_with(configs, resp),
                       ![t].pc = "searched"]
    /\ UNCHANGED notCalls

\* lines 306-314
TReturnNotFound(t) ==
    /\ calls[t].pc = "searched"
    /\ calls[t].all_results = <<>>
    /\ calls' = [calls EXCEPT ![t].answer = "not_found",
                              ![t].confidence = "none",
                              ![t].confidence_score = 0,
                              ![t].selected = <<>>,
                              ![t].pc = "returned"]
    /\ UNCHANGED notCalls

\* line 317
TClassify(t) ==
    /\ calls[t].pc = "searched"
    /\ calls[t].all_results # <<>>
    /\ LET verdict == calculate_confidence_level(calls[t].all_results)
       IN calls' = [calls EXCEPT ![t].confidence = verdict.level,
                                 ![t].confidence_score = verdict.score,
                                 ![t].pc = "classified"]
    /\ UNCHANGED notCalls

\* variant: the ranked list is kept in an attribute of the shared object,
\* so the selection reads the list the other call stored
TSelect_Shared(t) ==
    /\ calls[t].pc = "classified"
    /\ \E u \in Threads :
          /\ u # t
          /\ calls' = [calls EXCEPT
                ![t].selected =
                    select_diverse_results(
                        IF calls[u].pc \in {"start", "embedded", "raised"}
                        THEN calls[t].all_results ELSE calls[u].all_results,
                        max_results),
                ![t].pc = "selected"]
    /\ UNCHANGED notCalls

\* line 320
TSelect(t) ==
    /\ calls[t].pc = "classified"
    /\ calls' = [calls EXCEPT
                    ![t].selected =
                        select_diverse_results(calls[t].all_results, max_results),
                    ![t].pc = "selected"]
    /\ UNCHANGED notCalls

\* lines 323-336
TGenerate(t) ==
    /\ calls[t].pc = "selected"
    /\ \E ans \in {"synthesized", "generation_failed"} :
          calls' = [calls EXCEPT ![t].answer = ans, ![t].pc = "returned"]
    /\ UNCHANGED notCalls

NextConc ==
    \E t \in Threads :
        \/ TEmbed(t)
        \/ TSearch(t)
        \/ TReturnNotFound(t)
        \/ TClassify(t)
        \/ TSelect(t)
        \/ TGenerate(t)

SpecConc == InitConc /\ [][NextConc]_vars

\* what a call returns when it runs alone on the responses resp
AloneResult(resp) ==
    LET ranked == search_all_namespaces(resp)
        verdict == calculate_confidence_level(ranked)
    IN IF ranked = <<>>
       THEN [confidence |-> "none", confidence_score |-> 0, selected |-> <<>>,
             answers |-> {"not_found"}]
       ELSE [confidence |-> verdict.level, confidence_score |-> verdict.score,
             selected |-> select_diverse_results(ranked, 3),
             answers |-> {"synthesized", "generation_failed"}]

\* C18: concurrent calls of search_and_answer do not interfere: under every
\* interleaving a call returns what it returns when run alone on the same
\* search responses.
TheoremC18 ==
    \A t \in Threads :
        calls[t].pc = "returned" =>
            LET alone == AloneResult(calls[t].responses)
            IN /\ calls[t].confidence = alone.confidence
               /\ calls[t].confidence_score = alone.confidence_score
               /\ calls[t].selected = alone.selected
               /\ calls[t].answer \in alone.answers

\* both calls have returned, one with an answer and one with not-found,
\* from different responses
WitnessC18 ==
    /\ pc = "concurrent"
    /\ calls[1].pc = "returned"
    /\ calls[2].pc = "returned"
    /\ calls[1].responses # calls[2].responses
    /\ calls[1].answer = "synthesized"
    /\ calls[2].selected # calls[1].selected

\* the ranked lists of one or two results
ShortRankedLists ==
    {s \in {ResultsOf(ps) : ps \in UNION {[1..n -> FnPool] : n \in 1..2}} :
        IsRanked(s)}

\* C20: the level depends only on the weighted score of results[0] before
\* any bonus: every ranked list with the same results[0].weighted_score
\* gets the same level, whatever its other results and whether or not the
\* bonus applies; raw 0.85 of a namespace of weight 1.2 is classified from
\* 1.02.
TheoremC20 ==
    (FnClassified /\ all_results # <<>>) =>
        /\ \A other \in ShortRankedLists :
              other[1].weighted_score = all_results[1].weighted_score
                  => calculate_confidence_level(other).level = confidence
        /\ (all_results[1].namespace = "faq" /\ all_results[1].score = 85)
              => (all_results[1].weighted_score = 1020 /\ confidence = "high")

\* a list led by raw 0.85 of faq has been classified high, with the bonus;
\* its raw score alone and another top result of weighted score 0.8 occur too
WitnessC20 ==
    /\ pc = "fn_classified"
    /\ Len(all_results) >= 2
    /\ all_results[1].namespace = "faq"
    /\ all_results[1].score = 85
    /\ confidence = "high"
    /\ confidence_score = 1070

(***************************************************************************)
(* The threshold, the order of the output and its elements                 *)
(***************************************************************************)
\* r reaches the relative threshold best * 0.8 of the current ranked list
ReachesThreshold(r) ==
    r.weighted_score * ThresholdDen
        >= all_results[1].weighted_score * ThresholdNum

\* the part of the output that backfill added
Backfilled ==
    SubSeq(selected, Len(pass_selected) + 1, Len(selected))

\* C22: every item the diversity pass holds has weighted_score >=
\* 0.8 * results[0].weighted_score; an item of the output below that
\* threshold stands behind the diversity picks, and the diversity pass ended
\* with fewer than max_results items.
TheoremC22 ==
    (FnSelected /\ all_results # <<>>) =>
        /\ \A i \in 1..Len(pass_selected) : ReachesThreshold(pass_selected[i])
        /\ \A i \in 1..Len(selected) :
              ~ReachesThreshold(selected[i])
                  => /\ Len(pass_selected) < max_results
                     /\ i > Len(pass_selected)

\* a result below the threshold is in the output, behind two diversity picks
WitnessC22 ==
    /\ FnSelected
    /\ Len(pass_selected) = 2
    /\ Len(selected) = 3
    /\ ~ReachesThreshold(selected[3])

\* C23: the output is results[0], then the diversity picks in ranked order,
\* then the backfilled items in ranked order; the backfilled items keep
\* their place behind the picks whatever their scores are.
TheoremC23 ==
    (FnSelected /\ all_results # <<>> /\ max_results >= 1) =>
        /\ selected[1] = all_results[1]
        /\ Len(pass_selected) <= Len(selected)
        /\ SubSeq(selected, 1, Len(pass_selected)) = pass_selected
        /\ \A i \in 2..Len(pass_selected) :
              IndexOf(pass_selected[i - 1]) < IndexOf(pass_selected[i])
        /\ \A i \in 2..Len(Backfilled) :
              IndexOf(Backfilled[i - 1]) < IndexOf(Backfilled[i])
        /\ Backfilled =
              SubSeq(Remaining(all_results, pass_selected), 1, Len(Backfilled))

\* a backfilled item has a higher weighted score than the pick before it:
\* the output is not in score order
WitnessC23 ==
    /\ FnSelected
    /\ Len(pass_selected) >= 2
    /\ Len(selected) > Len(pass_selected)
    /\ selected[Len(pass_selected) + 1].weighted_score
           > selected[Len(pass_selected)].weighted_score

\* the results of the ranked list are pairwise distinct
PairwiseDistinct(s) ==
    \A i \in 1..Len(s), j \in 1..Len(s) : i # j => s[i] # s[j]

\* C27: for a ranked list of pairwise distinct matches the output of
\* select_diverse_results holds no match twice and every item of it is an
\* element of the ranked list, backfilled items included.
TheoremC27 ==
    (FnSelected /\ PairwiseDistinct(all_results)) =>
        /\ PairwiseDistinct(selected)
        /\ \A i \in 1..Len(selected) :
              \E j \in 1..Len(all_results) : selected[i] = all_results[j]

\* backfill ran over a list that held selected items before unselected ones
WitnessC27 ==
    /\ FnSelected
    /\ PairwiseDistinct(all_results)
    /\ Len(all_results) = 4
    /\ Len(pass_selected) = 2
    /\ Len(selected) = 4

\* r is in the output
InOutput(r) == \E i \in 1..Len(selected) : selected[i] = r

\* C28: whenever the output holds a backfilled item, every result that
\* reaches the threshold and is absent from the output belongs to a
\* namespace with 2 entries in the diversity pass.
TheoremC28 ==
    (FnSelected /\ Len(selected) > Len(pass_selected)) =>
        \A j \in 1..Len(all_results) :
            (ReachesThreshold(all_results[j]) /\ ~InOutput(all_results[j]))
                => CountNs(pass_selected, all_results[j].namespace) = 2

\* backfill added an item while a result above the threshold stayed out
WitnessC28 ==
    /\ FnSelected
    /\ Len(selected) > Len(pass_selected)
    /\ \E j \in 1..Len(all_results) :
          /\ ReachesThreshold(all_results[j])
          /\ ~InOutput(all_results[j])

(***************************************************************************)
(* The numeric confidence score under a raise of the top score             *)
(***************************************************************************)
\* the top score of the classified list has been raised at least once
TopRaised == pc = "fn_classified" /\ prev_confidence # "unset"

\* C26 as claimed: raising the weighted score of the top result, every other
\* result unchanged, never lowers the numeric confidence score.
ClaimC26 == TopRaised => confidence_score >= prev_score

\* C26 as amended: raising the weighted score of the top result, every other
\* result unchanged, lowers the numeric confidence score by less than 0.05,
\* and raises it when the list is a single result or its top results are
\* still a tight cluster after the raise.
TheoremC26 ==
    TopRaised =>
        /\ prev_score - confidence_score < 50
        /\ (Len(all_results) = 1 \/ TightTop(all_results))
              => confidence_score > prev_score

\* the raise took the top results out of the tight cluster and the score
\* went down
WitnessC26 ==
    /\ TopRaised
    /\ Len(all_results) >= 2
    /\ ~TightTop(all_results)
    /\ confidence_score < prev_score

(***************************************************************************)
(* select_diverse_results on a run of one namespace followed by a match    *)
(* of another namespace                                                    *)
(***************************************************************************)
\* n matches of "concept" at raw 1.0 (weighted 0.9), then one match of
\* "dictionary" at raw b (weighted b), or none when b = 0
ScenarioEntries(n, b) ==
    [i \in 1..n |-> [namespace |-> "concept", score |-> 100]]
    \o (IF b = 0 THEN <<>>
        ELSE <<[namespace |-> "dictionary", score |-> b]>>)

ScenarioLists ==
    {ResultsOf(ScenarioEntries(n, b)) : n \in 1..MaxRun, b \in {0, 70, 85}}

InitScn ==
    /\ pc = "fn_input"
    /\ responses = NoResponses
    /\ all_results \in ScenarioLists
    /\ confidence = "unset"
    /\ confidence_score = 0
    /\ max_results \in 0..MaxK
    /\ pass_selected = <<>>
    /\ selected = <<>>
    /\ answer = "unset"
    /\ prev_confidence = "unset"
    /\ prev_score = 0
    /\ configs = namespace_configs
    /\ synth_results = NotCalled
    /\ formatted = NotReturned
    /\ calls = NoCalls
    /\ streams = OriginalStreams
    /\ silencers = NoSilencers
    /\ session_state = NewSession
    /\ script = NoScript

NextScn ==
    \/ FnClassify
    \/ FnSelect

SpecScn == InitScn /\ [][NextScn]_vars

\* ten matches of partition A at weighted score 0.9, then one match of
\* partition B at 0.85
TenAThenB == ResultsOf(ScenarioEntries(10, 85))

\* select_diverse_results(TenAThenB, 3) has returned
ScenarioSelected ==
    /\ FnSelected
    /\ all_results = TenAThenB
    /\ max_results = 3

\* C24 as claimed: with ten matches of partition A at 0.9 followed by one
\* match of partition B at 0.85 and max_results = 3 the selection is the
\* first A match, the second A match, then the B match, and the B match is
\* added by the backfill step.
ClaimC24 ==
    ScenarioSelected =>
        /\ selected = <<TenAThenB[1], TenAThenB[2], TenAThenB[11]>>
        /\ pass_selected = <<TenAThenB[1], TenAThenB[2]>>

\* C24 as amended: the selection is the first A match, the second A match,
\* then the B match, and the B match is added by the diversity pass (it
\* reaches the threshold 0.72 and its partition is open); backfill adds
\* nothing.
TheoremC24 ==
    ScenarioSelected =>
        /\ selected = <<TenAThenB[1], TenAThenB[2], TenAThenB[11]>>
        /\ pass_selected = selected

\* the scenario's selection: A's third to tenth match were passed over
WitnessC24 ==
    /\ ScenarioSelected
    /\ Len(selected) = 3
    /\ selected[2].namespace = "concept"
    /\ selected[3].namespace = "dictionary"

(***************************************************************************)
(* search_and_answer over responses with malformed scores                  *)
(***************************************************************************)
\* raw scores a match can carry: 0.6, and outside [0, 1] 1.5 and -0.2
MalScores == {60, 150, -20}

\* n matches; has_score = FALSE is a match without a usable 'score' (the key
\* is missing or its value is None)
MalMatches(n) ==
    [1..n -> {[score |-> s, has_score |-> h] : s \in MalScores, h \in {TRUE}}
             \cup {[score |-> 0, has_score |-> FALSE]}]

\* the first two namespaces return up to top_k matches, the other two at
\* most one
MalLimit(namespace) ==
    IF namespace \in {"faq", "dictionary"}
    THEN Min(namespace_configs[namespace].top_k, MaxMatches)
    ELSE 1

MalResponsesOf(namespace) ==
    {[raises |-> FALSE,
      matches |-> [i \in 1..Len(m) |->
                      [id |-> i, score |-> m[i].score,
                       has_score |-> m[i].has_score, has_metadata |-> TRUE]]] :
        m \in UNION {MalMatches(n) : n \in 0..MalLimit(namespace)}}

\* the for-loop over response['matches'] (lines 72-81): match['score'] raises
\* KeyError at line 75, or None * weight raises TypeError at line 76, before
\* the match is appended; the except of line 83 ends the namespace
RECURSIVE AppendScored(_, _)
AppendScored(matches, namespace) ==
    IF matches = <<>> THEN <<>>
    ELSE IF ~Head(matches).has_score \/ ~Head(matches).has_metadata THEN <<>>
         ELSE <<MakeResult(Head(matches), namespace)>>
              \o AppendScored(Tail(matches), namespace)

RECURSIVE CollectScored(_, _)
CollectScored(resp, order) ==
    IF order = <<>> THEN <<>>
    ELSE (IF resp[Head(order)].raises THEN <<>>
          ELSE AppendScored(resp[Head(order)].matches, Head(order)))
         \o CollectScored(resp, Tail(order))

\* line 304 over such responses: no score is checked or replaced before the
\* product of line 76 and the sort of line 88
SearchMalformed ==
    /\ pc = "embedded"
    /\ \E rf \in MalResponsesOf("faq"), rd \in MalResponsesOf("dictionary"),
          rc \in MalResponsesOf("concept"), rk \in MalResponsesOf("chunk") :
          LET resp == [faq |-> rf, dictionary |-> rd,
                       concept |-> rc, chunk |-> rk]
          IN /\ responses' = resp
             /\ all_results' =
                   SortByWeightedScore(CollectScored(resp, NamespaceOrder))
    /\ pc' = "searched"
    /\ UNCHANGED <<confidence, confidence_score, max_results, pass_selected,
                   selected, answer, prev_confidence, prev_score>>
    /\ UNCHANGED <<synth_results, otherVars>>

NextMal ==
    \/ CreateQueryEmbedding
    \/ EmbeddingRaises
    \/ SearchMalformed
    \/ ReturnNotFound
    \/ CalculateConfidence
    \/ SelectDiverse
    \/ GenerateAnswer

SpecMal == Init /\ [][NextMal]_vars

\* the raw score of a ranked result lies outside [0, 1]
OutOfRange(r) == r.score < 0 \/ r.score > 100

\* C21: a match with a malformed raw score never precedes a well-formed
\* match in the ranked list, and the confidence verdict is never computed
\* from its score: when the top result is malformed the verdict is that of
\* the lowest score.
ClaimC21 ==
    /\ Searched =>
          \A i \in 1..Len(all_results), j \in 1..Len(all_results) :
              (i < j /\ OutOfRange(all_results[i]))
                  => OutOfRange(all_results[j])
    /\ (pc = "classified" /\ all_results # <<>>
            /\ OutOfRange(all_results[1]))
          => /\ confidence = "very_low"
             /\ confidence_score \in {0, ClusterBonus}

(***************************************************************************)
(* search_and_answer, the namespace loop of search_all_namespaces taken    *)
(* one iteration at a time                                                 *)
(***************************************************************************)
\* iteration i of the loop of lines 63-85: the namespace is queried and its
\* results are appended, or it fails and is skipped; pc is the namespace
\* just finished.  The last iteration is followed by the sort and the return
\* of lines 88-90.
QueryNamespace(i) ==
    LET namespace == NamespaceOrder[i]
        last == i = Len(NamespaceOrder)
    IN /\ pc = IF i = 1 THEN "embedded" ELSE NamespaceOrder[i - 1]
       /\ \E r \in ResponsesOf(namespace) :
             LET resp == [responses EXCEPT ![namespace] = r]
                 appended == all_results \o NamespaceResults(resp, namespace)
             IN /\ responses' = resp
                /\ all_results' = IF last THEN SortByWeightedScore(appended)
                                  ELSE appended
       /\ pc' = IF last THEN "searched" ELSE namespace
       /\ UNCHANGED <<confidence, confidence_score, max_results,
                      pass_selected, selected, answer, prev_confidence,
                      prev_score>>
       /\ UNCHANGED <<synth_results, otherVars>>

NextSteps ==
    \/ CreateQueryEmbedding
    \/ EmbeddingRaises
    \/ \E i \in 1..Len(NamespaceOrder) : QueryNamespace(i)
    \/ ReturnNotFound
    \/ CalculateConfidence
    \/ SelectDiverse
    \/ GenerateAnswer

SpecSteps == Init /\ [][NextSteps]_vars

\* how far a run has come: embedding, one stage per namespace of the loop
\* (the last one ends the search), classification, selection, synthesis
StepRank(p) ==
    CASE p = "start" -> 0
      [] p = "embedded" -> 1
      [] p \in Namespaces -> 1 + NsIndex(p)
      [] p = "searched" -> 1 + Len(NamespaceOrder)
      [] p = "classified" -> 2 + Len(NamespaceOrder)
      [] p = "selected" -> 3 + Len(NamespaceOrder)
      [] p = "returned" -> 4 + Len(NamespaceOrder)
      [] OTHER -> 0 - 1

\* C25: every step of a run of search_and_answer is the next stage of the
\* order embedding, query of each namespace in turn, classification,
\* selection, synthesis (or the raise of a failed embedding, or the
\* not-found return of an empty search); the verdict is computed only from
\* the sorted results of all namespaces, the selection only after the
\* verdict, and the synthesizer is called only with the finished selection.
TheoremC25 ==
    [][/\ \/ StepRank(pc') = StepRank(pc) + 1
          \/ pc = "start" /\ pc' = "raised"
          \/ /\ pc = "searched" /\ all_results = <<>>
             /\ pc' = "returned" /\ answer' = "not_found"
       /\ confidence' # confidence
             => /\ pc = "searched"
                /\ all_results = search_all_namespaces(responses)
       /\ selected' # selected => pc = "classified"
       /\ synth_results' # synth_results
             => pc = "selected" /\ synth_results' = selected]_vars

\* a run went through all five stages although one namespace failed
WitnessC25 ==
    /\ pc = "returned"
    /\ answer = "synthesized"
    /\ responses["dictionary"].raises
    /\ confidence # "unset"
    /\ selected # <<>>
    /\ synth_results = selected

(***************************************************************************)
(* Two overlapping SearchModule.search calls (response_formatter_v4.py):   *)
(* each runs search_and_answer inside suppress_output(), i.e. inside a     *)
(* SilentMode of its own; sys.stdout and sys.stderr belong to the process  *)
(***************************************************************************)
InitSilent ==
    /\ pc = "suppressing"
    /\ responses = NoResponses
    /\ all_results = <<>>
    /\ confidence = "unset"
    /\ confidence_score = 0
    /\ max_results = DefaultMaxResults
    /\ pass_selected = <<>>
    /\ selected = <<>>
    /\ answer = "unset"
    /\ prev_confidence = "unset"
    /\ prev_score = 0
    /\ configs = namespace_configs
    /\ synth_results = NotCalled
    /\ formatted = NotReturned
    /\ calls = NoCalls
    /\ streams = OriginalStreams
    /\ silencers = NoSilencers
    /\ session_state = NewSession
    /\ script = NoScript

\* the variables the output suppression does not touch
notStreams == <<pc, responses, all_results, confidence, confidence_score,
                max_results, pass_selected, selected, answer,
                prev_confidence, prev_score, configs, synth_results,
                formatted, calls, session_state, script>>

\* the file object open(os.devnull, 'w') returns to thread t for `name`
DevNull(t, name) == [owner |-> t, name |-> name]

\* line 27: self._original_stdout = sys.stdout
SilentInitStdout(t) ==
    /\ pc = "suppressing"
    /\ silencers[t].pc = "idle"
    /\ silencers' = [silencers EXCEPT ![t].pc = "init_stdout",
                                      ![t].original_stdout = streams.stdout]
    /\ UNCHANGED <<streams, notStreams>>

\* line 28: self._original_stderr = sys.stderr
SilentInitStderr(t) ==
    /\ silencers[t].pc = "init_stdout"
    /\ silencers' = [silencers EXCEPT ![t].pc = "constructed",
                                      ![t].original_stderr = streams.stderr]
    /\ UNCHANGED <<streams, notStreams>>

\* line 31: sys.stdout = open(os.devnull, 'w', encoding='utf-8')
SilentEnterStdout(t) ==
    /\ silencers[t].pc = "constructed"
    /\ streams' = [streams EXCEPT !.stdout = DevNull(t, "stdout")]
    /\ silencers' = [silencers EXCEPT ![t].pc = "enter_stdout"]
    /\ UNCHANGED notStreams

\* line 32: sys.stderr = open(os.devnull, 'w', encoding='utf-8')
SilentEnterStderr(t) ==
    /\ silencers[t].pc = "enter_stdout"
    /\ streams' = [streams EXCEPT !.stderr = DevNull(t, "stderr")]
    /\ silencers' = [silencers EXCEPT ![t].pc = "entered"]
    /\ UNCHANGED notStreams

\* line 83: search_and_answer runs inside the with block; whether it returns
\* or raises, __exit__ runs next
SilentBody(t) ==
    /\ silencers[t].pc = "entered"
    /\ silencers' = [silencers EXCEPT ![t].pc = "body_done"]
    /\ UNCHANGED <<streams, notStreams>>

\* line 36: sys.stdout.close() closes whatever sys.stdout is now
SilentCloseStdout(t) ==
    /\ silencers[t].pc = "body_done"
    /\ streams' = [streams EXCEPT !.closed = @ \cup {streams.stdout}]
    /\ silencers' = [silencers EXCEPT ![t].pc = "closed_stdout"]
    /\ UNCHANGED notStreams

\* line 37: sys.stderr.close()
SilentCloseStderr(t) ==
    /\ silencers[t].pc = "closed_stdout"
    /\ streams' = [streams EXCEPT !.closed = @ \cup {streams.stderr}]
    /\ silencers' = [silencers EXCEPT ![t].pc = "closed_stderr"]
    /\ UNCHANGED notStreams

\* line 38: sys.stdout = self._original_stdout
SilentRestoreStdout(t) ==
    /\ silencers[t].pc = "closed_stderr"
    /\ streams' = [streams EXCEPT !.stdout = silencers[t].original_stdout]
    /\ silencers' = [silencers EXCEPT ![t].pc = "restored_stdout"]
    /\ UNCHANGED notStreams

\* line 39: sys.stderr = self._original_stderr
SilentRestoreStderr(t) ==
    /\ silencers[t].pc = "restored_stdout"
    /\ streams' = [streams EXCEPT !.stderr = silencers[t].original_stderr]
    /\ silencers' = [silencers EXCEPT ![t].pc = "finished"]
    /\ UNCHANGED notStreams

NextSilent ==
    \E t \in Threads :
        \/ SilentInitStdout(t)
        \/ SilentInitStderr(t)
        \/ SilentEnterStdout(t)
        \/ SilentEnterStderr(t)
        \/ SilentBody(t)
        \/ SilentCloseStdout(t)
        \/ SilentCloseStderr(t)
        \/ SilentRestoreStdout(t)
        \/ SilentRestoreStderr(t)

SpecSilent == InitSilent /\ [][NextSilent]_vars

\* C29: for every interleaving of two overlapping SearchModule.search
\* calls, once both have left suppress_output sys.stdout and sys.stderr are
\* the original streams again and the original streams are not closed.
ClaimC29 ==
    (\A t \in Threads : silencers[t].pc = "finished") =>
        /\ streams.stdout = OriginalStdout
        /\ streams.stderr = OriginalStderr
        /\ OriginalStdout \notin streams.closed
        /\ OriginalStderr \notin streams.closed

(***************************************************************************)
(* One chat session of the application (app_Duri_v10.py): every event of   *)
(* the user starts a run of DuriChatApp.run over st.session_state.  Other  *)
(* sessions of the process are the two SearchModule.search calls of        *)
(* SpecSilent, running at any time                                         *)
(***************************************************************************)
\* the variables a script run does not touch
notSession == <<pc, responses, all_results, confidence, confidence_score,
                max_results, pass_selected, selected, answer,
                prev_confidence, prev_score, configs, synth_results,
                formatted, calls, streams, silencers>>

UserMessage == [role |-> "user"]

AssistantMessage == [role |-> "assistant"]

\* a run triggered by nothing but st.rerun()
PlainRun ==
    [pc |-> "run_start", prompt |-> FALSE, clear |-> FALSE,
     faq_shown |-> FALSE, completed |-> FALSE]

\* print() on a closed file raises ValueError
PrintRaises == streams.stdout \in streams.closed

\* the user submits the chat input (line 857 returns the prompt in the run
\* this starts)
TypeQuestion ==
    /\ script.pc = "idle"
    /\ Len(session_state.messages) + 2 <= MaxMessages
    /\ script' = [PlainRun EXCEPT !.prompt = TRUE]
    /\ UNCHANGED <<session_state, notSession>>

\* the user clicks a recommended question: the callback of lines 98-101
\* runs, then the script
ClickFaqButton ==
    /\ script.pc = "idle"
    /\ script.faq_shown
    /\ Len(session_state.messages) + 2 <= MaxMessages
    /\ session_state' = [session_state EXCEPT !.selected_question = "faq",
                                              !.is_from_faq = TRUE]
    /\ script' = PlainRun
    /\ UNCHANGED notSession

\* the user clicks the clear button (line 699 returns True in the run this
\* starts)
ClickClear ==
    /\ script.pc = "idle"
    /\ script' = [PlainRun EXCEPT !.clear = TRUE]
    /\ UNCHANGED <<session_state, notSession>>

\* lines 176-185: a selected question is taken, the two flags are reset and
\* the user message is appended
TakeSelectedQuestion ==
    /\ script.pc = "run_start"
    /\ session_state.selected_question # "None"
    /\ session_state' =
          [session_state EXCEPT !.selected_question = "None",
                                !.is_from_faq = FALSE,
                                !.messages = Append(@, UserMessage)]
    /\ script' = [script EXCEPT !.pc = "faq_answering"]
    /\ UNCHANGED notSession

\* lines 188-216 and 905-907: the answer is made, evaluated (the evaluator
\* prints its result, agent_evaluator_v2.py line 143), appended, and the
\* script is rerun
AnswerSelectedQuestion ==
    /\ script.pc = "faq_answering"
    /\ ~PrintRaises
    /\ session_state' =
          [session_state EXCEPT !.messages = Append(@, AssistantMessage)]
    /\ script' = PlainRun
    /\ UNCHANGED notSession

\* line 189: evaluate_question raises out of handle_selected_question,
\* which has no handler; the run ends with the user message appended
AnswerSelectedRaises ==
    /\ script.pc = "faq_answering"
    /\ PrintRaises
    /\ script' = [script EXCEPT !.pc = "idle", !.faq_shown = FALSE,
                                !.completed = FALSE]
    /\ UNCHANGED <<session_state, notSession>>

\* lines 176, 218, 909-911 and 857-859: no question is selected; the chat is
\* rendered and a typed prompt is appended as user message
HandleUserInput ==
    /\ script.pc = "run_start"
    /\ session_state.selected_question = "None"
    /\ IF script.prompt
       THEN /\ session_state' =
                  [session_state EXCEPT !.messages = Append(@, UserMessage)]
            /\ script' = [script EXCEPT !.pc = "typed_answering"]
       ELSE /\ script' = [script EXCEPT !.pc = "sidebar"]
            /\ UNCHANGED session_state
    /\ UNCHANGED notSession

\* lines 873-897: the answer is made, evaluated, rendered (with the
\* recommended questions when there are any, lines 493-497) and appended
GenerateAiResponse ==
    /\ script.pc = "typed_answering"
    /\ ~PrintRaises
    /\ session_state' =
          [session_state EXCEPT !.messages = Append(@, AssistantMessage)]
    /\ \E shown \in BOOLEAN :
          script' = [script EXCEPT !.pc = "sidebar", !.faq_shown = shown]
    /\ UNCHANGED notSession

\* line 882: evaluate_question raises out of generate_ai_response and of
\* run, which have no handler; the run ends with the user message appended
GenerateAiResponseRaises ==
    /\ script.pc = "typed_answering"
    /\ PrintRaises
    /\ script' = [script EXCEPT !.pc = "idle", !.faq_shown = FALSE,
                                !.completed = FALSE]
    /\ UNCHANGED <<session_state, notSession>>

\* lines 586-600 and 697-701: the sidebar is rendered; a clicked clear
\* button empties the messages and reruns the script, otherwise the run ends
RenderSidebar ==
    /\ script.pc = "sidebar"
    /\ IF script.clear
       THEN /\ session_state' = [session_state EXCEPT !.messages = <<>>]
            /\ script' = PlainRun
       ELSE /\ script' = [script EXCEPT !.pc = "idle", !.prompt = FALSE,
                                        !.completed = TRUE]
            /\ UNCHANGED session_state
    /\ UNCHANGED notSession

NextApp ==
    \/ TypeQuestion
    \/ ClickFaqButton
    \/ ClickClear
    \/ TakeSelectedQuestion
    \/ AnswerSelectedQuestion
    \/ AnswerSelectedRaises
    \/ HandleUserInput
    \/ GenerateAiResponse
    \/ GenerateAiResponseRaises
    \/ RenderSidebar
    \/ NextSilent

SpecApp == InitSilent /\ [][NextApp]_vars

\* the messages are user, assistant, user, assistant, ...: the message at
\* 0-based index idx is a user message exactly when idx is even, so idx // 2
\* of a user message is its question number
Alternates(messages) ==
    \A i \in 1..Len(messages) :
        messages[i].role = IF i % 2 = 1 THEN "user" ELSE "assistant"

\* C30: whenever a script run has completed, the message list alternates
\* user, assistant starting with a user message and ends with an assistant
\* message, and no selected question is pending (selected_question is None
\* and is_from_faq is False).
ClaimC30 ==
    (script.pc = "idle" /\ script.completed) =>
        /\ Alternates(session_state.messages)
        /\ Len(session_state.messages) % 2 = 0
        /\ session_state.selected_question = "None"
        /\ ~session_state.is_from_faq

====
